---- MODULE Spec2Model ----
(***************************************************************************)
(* Spectrophotometer Data Plotter (src/app.py): the symbol codec, the      *)
(* tolerant tabular parser and the "Process Files" handler of one script   *)
(* run.                                                                    *)
(*                                                                         *)
(* Text is a sequence of characters; a character is a one-element name:    *)
(* "0".."9", ".", " ", "a" stand for themselves, "deg" is U+00B0, "sup1"   *)
(* U+00B9, "sup3" U+00B3, "micro" U+00B5, "pilcrow" U+00B6, "reg" U+00AE   *)
(* and "Acirc" U+00C2.  A byte of an uploaded plain-text file is named the *)
(* same way for the ASCII range and by its hex value ("B0", "C2", ...)     *)
(* above it.  A symbol map is the dict's item list, in insertion order,    *)
(* as a sequence of <<key, glyph>> pairs with distinct keys.  A number is  *)
(* held in tenths (85.3 is 853).                                           *)
(***************************************************************************)
EXTENDS Integers, Sequences, FiniteSets, TLC

VARIABLES
    symbol_map_text,    \* sidebar text area: what eval() of the text yields
    symbol_map,         \* the map used for decoding
    sidebar_error,      \* st.sidebar.error was shown
    encoding,           \* sidebar selectbox
    uploaded_files,     \* the file uploader's list
    pc,                 \* position of the script run
    idx,                \* loop variable of the per-file loop (1-based)
    all_dataframes,     \* tables appended so far
    file_labels,        \* labels appended so far
    overall_min_range,
    overall_max_range,
    errors,             \* st.error calls, in order
    warnings,           \* st.warning calls, in order
    plotted,            \* series drawn on the figure shown by st.pyplot
    excel_calls,        \* number of calls of save_to_excel
    workbook,           \* sheets of the workbook handed to the download button
    download,           \* st.download_button was rendered
    ctext,              \* codec harness: argument text
    cmap,               \* codec harness: argument symbol_map
    creplaced,          \* codec harness: replaced_text
    cout,               \* codec harness: returned text
    cpc                 \* codec harness: position inside the function

appVars == <<symbol_map_text, symbol_map, sidebar_error, encoding, uploaded_files,
             pc, idx, all_dataframes, file_labels, overall_min_range,
             overall_max_range, errors, warnings, plotted, excel_calls,
             workbook, download>>
codecVars == <<ctext, cmap, creplaced, cout, cpc>>
vars == <<appVars, codecVars>>

(***************************************************************************)
(* Bounds of the model.                                                    *)
(***************************************************************************)
MaxFiles == 2       \* files uploaded in one run
MaxLen == 2         \* length of a text given to the codec harness
MaxMapLen == 2      \* entries of a symbol map given to the codec harness

(***************************************************************************)
(* Sequence helpers.                                                       *)
(***************************************************************************)
SetMax(S) == CHOOSE m \in S : \A x \in S : x <= m

SetMin(S) == CHOOSE m \in S : \A x \in S : m <= x

Last(s) == s[Len(s)]

SeqsUpTo(S, n) == UNION {[1..k -> S] : k \in 0..n}

(***************************************************************************)
(* The symbol codec.                                                       *)
(***************************************************************************)
default_symbol_map ==
    << <<"0", "deg">>, <<"1", "1">>, <<"2", "2">>, <<"3", "sup3">>,
       <<"4", "4">>, <<"5", "micro">>, <<"6", "pilcrow">>, <<"7", "7">>,
       <<"8", "8">>, <<"9", "sup1">>, <<".", "reg">> >>

Keys(m) == {m[i][1] : i \in 1..Len(m)}

Glyphs(m) == {m[i][2] : i \in 1..Len(m)}

Injective(m) == \A i, j \in 1..Len(m) : m[i][2] = m[j][2] => i = j

\* dict.get(char, char)
DictGet(m, char) ==
    IF char \in Keys(m)
    THEN m[CHOOSE i \in 1..Len(m) : m[i][1] = char][2]
    ELSE char

\* variant: the first item of a shared glyph is kept
reversed_map_FirstWins(m) ==
    [g \in Glyphs(m) |-> m[SetMin({i \in 1..Len(m) : m[i][2] = g})][1]]

\* {v: k for k, v in symbol_map.items()}: a later item overwrites an earlier one
reversed_map(m) ==
    [g \in Glyphs(m) |-> m[SetMax({i \in 1..Len(m) : m[i][2] = g})][1]]

\* variant: no substitution before the reverse lookup
ForwardPass_Skipped(text, m) == text

\* line 25: ''.join(symbol_map.get(char, char) for char in text)
ForwardPass(text, m) == [i \in 1..Len(text) |-> DictGet(m, text[i])]

\* lines 27-28: ''.join(reversed_map.get(char, char) for char in replaced_text)
ReversePass(replaced_text, m) ==
    LET rev == reversed_map(m)
    IN  [i \in 1..Len(replaced_text) |->
            IF replaced_text[i] \in DOMAIN rev
            THEN rev[replaced_text[i]]
            ELSE replaced_text[i]]

convert_digits_to_symbols(text, m) == ReversePass(ForwardPass(text, m), m)

(***************************************************************************)
(* Numbers and cells.  A cell of a table is [t, v, s]: t is "int" or       *)
(* "float" (v holds the value in tenths), "str" (s holds the text), "nan"  *)
(* (float NaN) or "none" (None).                                           *)
(***************************************************************************)
DigitChars == {"0", "1", "2", "3", "4", "5", "6", "7", "8", "9"}

DigitSeq == <<"0", "1", "2", "3", "4", "5", "6", "7", "8", "9">>

DigitVal(c) == (CHOOSE i \in 1..10 : DigitSeq[i] = c) - 1

RECURSIVE IntVal(_)
IntVal(s) ==
    IF s = <<>> THEN 0
    ELSE IntVal(SubSeq(s, 1, Len(s) - 1)) * 10 + DigitVal(Last(s))

RECURSIVE DigitsOf(_)
DigitsOf(n) ==
    IF n < 10 THEN <<DigitSeq[n + 1]>>
    ELSE DigitsOf(n \div 10) \o <<DigitSeq[(n % 10) + 1]>>

IntCell(v) == [t |-> "int", v |-> v, s |-> <<>>]
FloatCell(v) == [t |-> "float", v |-> v, s |-> <<>>]
StrCell(s) == [t |-> "str", v |-> 0, s |-> s]
NanCell == [t |-> "nan", v |-> 0, s |-> <<>>]
NoneCell == [t |-> "none", v |-> 0, s |-> <<>>]

IsNumber(cell) == cell.t \in {"int", "float"}

\* str(x) of a cell value
python_str(cell) ==
    CASE cell.t = "str" -> cell.s
      [] cell.t = "int" -> DigitsOf(cell.v \div 10)
      [] cell.t = "float" -> DigitsOf(cell.v \div 10) \o <<".">> \o DigitsOf(cell.v % 10)
      [] cell.t = "nan" -> <<"n", "a", "n">>
      [] cell.t = "none" -> <<"N", "o", "n", "e">>

\* the texts a numeric parser accepts over this alphabet: digits with at most
\* one "." and at least one digit
IsInteger(s) == s # <<>> /\ \A i \in 1..Len(s) : s[i] \in DigitChars

IsNumeric(s) ==
    /\ \A i \in 1..Len(s) : s[i] \in DigitChars \cup {"."}
    /\ Cardinality({i \in 1..Len(s) : s[i] = "."}) <= 1
    /\ \E i \in 1..Len(s) : s[i] \in DigitChars

\* the value, in tenths, of a numeric text (the texts of the model carry at
\* most one decimal place)
NumVal(s) ==
    LET dots == {i \in 1..Len(s) : s[i] = "."}
        p == IF dots = {} THEN Len(s) + 1 ELSE CHOOSE i \in dots : TRUE
        ip == SubSeq(s, 1, p - 1)
        fp == SubSeq(s, p + 1, Len(s))
    IN  IntVal(ip) * 10 + (IF fp = <<>> THEN 0 ELSE DigitVal(fp[1]))

\* pd.to_numeric(column, errors="coerce") on one cell
to_numeric(cell) ==
    IF IsNumber(cell) THEN FloatCell(cell.v)
    ELSE IF cell.t = "str" /\ IsNumeric(cell.s) THEN FloatCell(NumVal(cell.s))
    ELSE NanCell

(***************************************************************************)
(* Bytes to text.                                                          *)
(***************************************************************************)
\* bytes 0x80..0xBF of the alphabet: UTF-8 continuation bytes
ContinuationBytes == {"B0", "B9", "B3", "B5", "B6", "AE"}

\* bytes.decode("latin1"), one byte
Latin1Char(b) ==
    CASE b = "B0" -> "deg"
      [] b = "B9" -> "sup1"
      [] b = "B3" -> "sup3"
      [] b = "B5" -> "micro"
      [] b = "B6" -> "pilcrow"
      [] b = "AE" -> "reg"
      [] b = "C2" -> "Acirc"
      [] OTHER -> b

decode_latin1(bytes) == [i \in 1..Len(bytes) |-> Latin1Char(bytes[i])]

\* whether the bytes are well-formed UTF-8: 0xC2 leads a two-byte sequence,
\* a continuation byte cannot stand alone
RECURSIVE Utf8Valid(_)
Utf8Valid(bytes) ==
    IF bytes = <<>> THEN TRUE
    ELSE IF Head(bytes) = "C2"
         THEN /\ Len(bytes) >= 2
              /\ bytes[2] \in ContinuationBytes
              /\ Utf8Valid(SubSeq(bytes, 3, Len(bytes)))
         ELSE Head(bytes) \notin ContinuationBytes /\ Utf8Valid(Tail(bytes))

\* bytes.decode("utf-8") of well-formed bytes: C2 xx is U+00xx
RECURSIVE decode_utf8(_)
decode_utf8(bytes) ==
    IF bytes = <<>> THEN <<>>
    ELSE IF Head(bytes) = "C2"
         THEN <<Latin1Char(bytes[2])>> \o decode_utf8(SubSeq(bytes, 3, Len(bytes)))
         ELSE <<Head(bytes)>> \o decode_utf8(Tail(bytes))

\* variant: bytes that are not UTF-8 are read as Latin-1 instead of raising
DecodeFile_Replace(lines, codec) ==
    [ok |-> TRUE,
     lines |-> [i \in 1..Len(lines) |->
                  IF codec = "utf-8" /\ Utf8Valid(lines[i])
                  THEN decode_utf8(lines[i])
                  ELSE decode_latin1(lines[i])]]

\* decoding of a whole file under a codec: [ok, lines]
DecodeFile(lines, codec) ==
    IF codec = "utf-8"
    THEN IF \A i \in 1..Len(lines) : Utf8Valid(lines[i])
         THEN [ok |-> TRUE, lines |-> [i \in 1..Len(lines) |-> decode_utf8(lines[i])]]
         ELSE [ok |-> FALSE, lines |-> <<>>]
    ELSE [ok |-> TRUE, lines |-> [i \in 1..Len(lines) |-> decode_latin1(lines[i])]]

(***************************************************************************)
(* Lines to rows.                                                          *)
(***************************************************************************)
\* not line.strip()
IsBlank(line) == \A i \in 1..Len(line) : line[i] = " "

\* str.split(): the tokens between runs of white space
RECURSIVE Split(_)
Split(line) ==
    IF line = <<>> THEN <<>>
    ELSE IF Head(line) = " " THEN Split(Tail(line))
    ELSE LET spaces == {i \in 1..Len(line) : line[i] = " "}
             n == IF spaces = {} THEN Len(line) + 1 ELSE SetMin(spaces)
         IN  <<SubSeq(line, 1, n - 1)>> \o Split(SubSeq(line, n, Len(line)))

\* [line.split() for line in lines if line.strip()]
RECURSIVE SplitRows(_)
SplitRows(lines) ==
    IF lines = <<>> THEN <<>>
    ELSE IF IsBlank(Head(lines)) THEN SplitRows(Tail(lines))
    ELSE <<Split(Head(lines))>> \o SplitRows(Tail(lines))

MaxRowLen(rows) == IF rows = <<>> THEN 0 ELSE SetMax({Len(rows[i]) : i \in 1..Len(rows)})

EmptyFrame == [ncols |-> 0, rows |-> <<>>]

\* pd.DataFrame(rows): as many columns as the longest row, short rows padded
\* with None
DataFrame(rows) ==
    LET n == MaxRowLen(rows)
    IN  [ncols |-> n,
         rows |-> [r \in 1..Len(rows) |->
                     [c \in 1..n |->
                        IF c <= Len(rows[r]) THEN StrCell(rows[r][c]) ELSE NoneCell]]]

\* df.empty
IsEmpty(df) == df.ncols = 0 \/ df.rows = <<>>

\* the type pd.read_csv infers for column c of the token rows
ColumnKind(rows, c) ==
    LET present == {r \in 1..Len(rows) : c <= Len(rows[r])}
    IN  IF \A r \in present : IsInteger(rows[r][c])
        THEN IF present = 1..Len(rows) THEN "int" ELSE "float"
        ELSE IF \A r \in present : IsNumeric(rows[r][c]) THEN "float"
        ELSE "object"

\* pd.read_csv(file, delim_whitespace=True, header=None, encoding=encoding):
\* [raised, exc, df]
read_csv(lines, codec) ==
    LET dec == DecodeFile(lines, codec)
        rows == SplitRows(dec.lines)
        n == IF rows = <<>> THEN 0 ELSE Len(rows[1])
    IN  IF ~dec.ok
        THEN [raised |-> TRUE, exc |-> "UnicodeDecodeError", df |-> EmptyFrame]
        ELSE IF rows = <<>>
        THEN [raised |-> TRUE, exc |-> "EmptyDataError", df |-> EmptyFrame]
        ELSE IF \E r \in 1..Len(rows) : Len(rows[r]) > n
        THEN [raised |-> TRUE, exc |-> "ParserError", df |-> EmptyFrame]
        ELSE [raised |-> FALSE, exc |-> "",
              df |-> [ncols |-> n,
                      rows |-> [r \in 1..Len(rows) |->
                        [c \in 1..n |->
                           IF c > Len(rows[r]) THEN NanCell
                           ELSE CASE ColumnKind(rows, c) = "int" ->
                                       IntCell(NumVal(rows[r][c]))
                                  [] ColumnKind(rows, c) = "float" ->
                                       FloatCell(NumVal(rows[r][c]))
                                  [] OTHER -> StrCell(rows[r][c])]]]]

\* df[col].apply(lambda x: convert_digits_to_symbols(str(x), symbol_map)),
\* for every column
ApplySymbolMap(df, m) ==
    [df EXCEPT !.rows =
        [r \in 1..Len(df.rows) |->
            [c \in 1..df.ncols |->
                StrCell(convert_digits_to_symbols(python_str(df.rows[r][c]), m))]]]

\* pd.to_numeric(..., errors="coerce") on every column
ToNumericFrame(df) ==
    [df EXCEPT !.rows =
        [r \in 1..Len(df.rows) |->
            [c \in 1..df.ncols |-> to_numeric(df.rows[r][c])]]]

HasNaN(row) == \E c \in 1..Len(row) : row[c].t \in {"nan", "none"}

\* df.dropna().reset_index(drop=True)
dropna(df) ==
    LET Keep(row) == ~HasNaN(row)
    IN  [df EXCEPT !.rows = SelectSeq(df.rows, Keep)]

\* process_txt_file(uploaded_file, symbol_map, encoding): [raised, exc, df];
\* every exception leaves as ValueError
process_txt_file(lines, m, enc) ==
    LET read == IF enc = "Customized Mapping"
                THEN [raised |-> FALSE, exc |-> "",
                      df |-> DataFrame(SplitRows(DecodeFile(lines, "latin1").lines))]
                ELSE read_csv(lines, enc)
    IN  IF read.raised
        THEN [raised |-> TRUE, exc |-> read.exc, df |-> EmptyFrame]
        ELSE IF read.df.ncols \notin {1, 2}
        THEN [raised |-> TRUE, exc |-> "Unsupported number of columns", df |-> EmptyFrame]
        ELSE [raised |-> FALSE, exc |-> "",
              df |-> dropna(ToNumericFrame(ApplySymbolMap(read.df, m)))]

\* the .odt branch of the handler up to the symbol mapping: [raised, exc, df]
process_odt(paragraphs, m) ==
    LET df == DataFrame(SplitRows(paragraphs))
    IN  IF df.ncols \notin {1, 2}
        THEN [raised |-> TRUE, exc |-> "Unsupported number of columns in ODT file",
              df |-> EmptyFrame]
        ELSE [raised |-> FALSE, exc |-> "", df |-> ApplySymbolMap(df, m)]

(***************************************************************************)
(* Inputs of one script run.  An uploaded file is [stem, ext, lines]: the  *)
(* name split at its extension and the content, line by line: bytes for a  *)
(* plain-text file, the paragraphs' text for an .odt document.             *)
(***************************************************************************)
\* the text of the documented example: U+00B0 U+00B9 U+00B0, a space, U+00B5
\* U+00B6 "." U+00B3
ExampleText == <<"deg", "sup1", "deg", " ", "micro", "pilcrow", ".", "sup3">>

Line_190_853 == <<"1", "9", "0", " ", "8", "5", ".", "3">>
Line_200_901 == <<"2", "0", "0", " ", "9", "0", ".", "1">>
Line_190 == <<"1", "9", "0">>
Line_200 == <<"2", "0", "0">>
Line_three == <<"2", "0", "0", " ", "9", "0", ".", "1", " ", "a">>
Line_abc_853 == <<"a", " ", "8", "5", ".", "3">>
\* the example text written as Latin-1 bytes and as UTF-8 bytes
Line_glyphs_latin1 == <<"B0", "B9", "B0", " ", "B5", "B6", ".", "B3">>
Line_glyphs_utf8 ==
    <<"C2", "B0", "C2", "B9", "C2", "B0", " ", "C2", "B5", "C2", "B6", ".", "C2", "B3">>

FileCatalogue ==
    { [stem |-> "two", ext |-> ".csv", lines |-> <<Line_190_853, Line_200_901>>],
      [stem |-> "one", ext |-> "", lines |-> <<Line_190, Line_200>>],
      [stem |-> "wide", ext |-> "", lines |-> <<Line_three>>],
      [stem |-> "ragged", ext |-> ".txt", lines |-> <<Line_190_853, Line_three>>],
      [stem |-> "noisy", ext |-> "", lines |-> <<Line_abc_853, Line_200_901>>],
      [stem |-> "empty", ext |-> "", lines |-> <<>>],
      [stem |-> "glyphs", ext |-> "", lines |-> <<Line_glyphs_latin1>>],
      [stem |-> "glyphs8", ext |-> ".txt", lines |-> <<Line_glyphs_utf8>>],
      [stem |-> "doc", ext |-> ".odt", lines |-> <<ExampleText, Line_abc_853>>] }

\* uploads: up to MaxFiles files with distinct names
Uploads ==
    {fs \in SeqsUpTo(FileCatalogue, MaxFiles) :
        \A i, j \in 1..Len(fs) : fs[i] = fs[j] => i = j}

Encodings == {"latin1", "utf-8", "Customized Mapping"}

\* the default map with the glyph of "0" retyped as the glyph of "9"
NonInjectiveMap == [default_symbol_map EXCEPT ![1] = <<"0", "sup1">>]

\* what eval() of the sidebar text yields: a dict, another value, or an
\* exception
SymbolMapTexts ==
    { [kind |-> "dict", items |-> default_symbol_map],
      [kind |-> "dict", items |-> NonInjectiveMap],
      [kind |-> "other", items |-> <<>>],
      [kind |-> "raise", items |-> <<>>] }

PosInf == 1000000000      \* float('inf')
NegInf == -1000000000     \* float('-inf')
DefaultMinRange == 0      \* 0.0
DefaultMaxRange == 1000   \* 100.0

CodecOff ==
    /\ ctext = <<>>
    /\ cmap = <<>>
    /\ creplaced = <<>>
    /\ cout = <<>>
    /\ cpc = "off"

Init ==
    /\ symbol_map_text \in SymbolMapTexts
    /\ symbol_map = <<>>
    /\ sidebar_error = FALSE
    /\ encoding \in Encodings
    /\ uploaded_files \in Uploads
    /\ pc = "build"
    /\ idx = 0
    /\ all_dataframes = <<>>
    /\ file_labels = <<>>
    /\ overall_min_range = 0
    /\ overall_max_range = 0
    /\ errors = <<>>
    /\ warnings = <<>>
    /\ plotted = <<>>
    /\ excel_calls = 0
    /\ workbook = <<>>
    /\ download = FALSE
    /\ CodecOff

(***************************************************************************)
(* The script run.                                                         *)
(***************************************************************************)
\* lines 89-96: eval of the text, isinstance check, fallback
BuildSymbolMap ==
    /\ pc = "build"
    /\ IF symbol_map_text.kind = "dict"
       THEN /\ symbol_map' = symbol_map_text.items
            /\ UNCHANGED sidebar_error
       ELSE /\ symbol_map' = default_symbol_map
            /\ sidebar_error' = TRUE
    /\ pc' = "button"
    /\ UNCHANGED <<symbol_map_text, encoding, uploaded_files, idx, all_dataframes,
                   file_labels, overall_min_range, overall_max_range, errors,
                   warnings, plotted, excel_calls, workbook, download, codecVars>>

\* lines 108-113: button pressed with files uploaded
ClickProcess ==
    /\ pc = "button"
    /\ uploaded_files # <<>>
    /\ all_dataframes' = <<>>
    /\ file_labels' = <<>>
    /\ overall_min_range' = PosInf
    /\ overall_max_range' = NegInf
    /\ idx' = 1
    /\ pc' = "loop"
    /\ UNCHANGED <<symbol_map_text, symbol_map, sidebar_error, encoding,
                   uploaded_files, errors, warnings, plotted, excel_calls,
                   workbook, download, codecVars>>

\* lines 108-109, 218-219: button pressed with nothing uploaded
ClickNoFiles ==
    /\ pc = "button"
    /\ uploaded_files = <<>>
    /\ warnings' = Append(warnings, "Please upload files to process.")
    /\ pc' = "idle"
    /\ UNCHANGED <<symbol_map_text, symbol_map, sidebar_error, encoding,
                   uploaded_files, idx, all_dataframes, file_labels,
                   overall_min_range, overall_max_range, errors, plotted,
                   excel_calls, workbook, download, codecVars>>

\* lines 119-127: the name the upload carries after the renaming
RenamedExt(ext) == IF ext = ".odt" THEN ".odt" ELSE ".txt"

\* lines 131-164: the table of one file, or the exception raised: [raised, exc, df]
ParseFile(file, m, enc) ==
    IF file.ext = ".odt"
    THEN process_odt(file.lines, m)
    ELSE process_txt_file(file.lines, m, enc)

\* df["Wavelength"].min(), df["Percentage"].max(): of a numeric column, in tenths
ColumnValues(df, c) == {df.rows[r][c].v : r \in 1..Len(df.rows)}

\* min(overall_min_range, <str>) raises TypeError when the column holds text
ColumnIsText(df, c) == \E r \in 1..Len(df.rows) : df.rows[r][c].t = "str"

Min2(a, b) == IF a <= b THEN a ELSE b

Max2(a, b) == IF a >= b THEN a ELSE b

\* lines 166-175: what one iteration leaves behind, given the parse's outcome:
\* [tables, min, max, errs]
Accumulate(i, name, out, tables, lo, hi, errs) ==
    IF out.raised
    THEN [tables |-> tables, lo |-> lo, hi |-> hi,
          errs |-> Append(errs, [file |-> i, name |-> name, exc |-> out.exc])]
    ELSE IF IsEmpty(out.df)
    THEN [tables |-> tables, lo |-> lo, hi |-> hi, errs |-> errs]
    ELSE LET appended ==
                 Append(tables, [src |-> i, ncols |-> out.df.ncols, rows |-> out.df.rows])
         IN  IF ColumnIsText(out.df, 1)
             THEN [tables |-> appended, lo |-> lo, hi |-> hi,
                   errs |-> Append(errs, [file |-> i, name |-> name, exc |-> "TypeError"])]
             ELSE [tables |-> appended,
                   lo |-> Min2(lo, SetMin(ColumnValues(out.df, 1))),
                   hi |-> IF out.df.ncols = 2
                          THEN Max2(hi, SetMax(ColumnValues(out.df, 2)))
                          ELSE hi,
                   errs |-> errs]

\* lines 115-175: one iteration of the per-file loop
ProcessFile ==
    /\ pc = "loop"
    /\ idx <= Len(uploaded_files)
    /\ LET file == uploaded_files[idx]
           renamed == [file EXCEPT !.ext = RenamedExt(file.ext)]
           out == ParseFile(file, symbol_map, encoding)
           acc == Accumulate(idx, <<renamed.stem, renamed.ext>>, out, all_dataframes,
                             overall_min_range, overall_max_range, errors)
       IN  /\ uploaded_files' = [uploaded_files EXCEPT ![idx] = renamed]
           /\ file_labels' = Append(file_labels, file.stem)
           /\ all_dataframes' = acc.tables
           /\ overall_min_range' = acc.lo
           /\ overall_max_range' = acc.hi
           /\ errors' = acc.errs
    /\ idx' = idx + 1
    /\ pc' = IF idx = Len(uploaded_files) THEN "ranges" ELSE "loop"
    /\ UNCHANGED <<symbol_map_text, symbol_map, sidebar_error, encoding, warnings,
                   plotted, excel_calls, workbook, download, codecVars>>

\* lines 177-181
SetDefaultRanges ==
    /\ pc = "ranges"
    /\ overall_min_range' =
          IF overall_min_range = PosInf THEN DefaultMinRange ELSE overall_min_range
    /\ overall_max_range' =
          IF overall_max_range = NegInf THEN DefaultMaxRange ELSE overall_max_range
    /\ pc' = "plot"
    /\ UNCHANGED <<symbol_map_text, symbol_map, sidebar_error, encoding,
                   uploaded_files, idx, all_dataframes, file_labels, errors,
                   warnings, plotted, excel_calls, workbook, download, codecVars>>

\* zip(dataframes, names)
Zip(dfs, names) ==
    [k \in 1..Min2(Len(dfs), Len(names)) |-> [df |-> dfs[k], label |-> names[k]]]

\* lines 183-204: every table is drawn with its Percentage column
Plot ==
    /\ pc = "plot"
    /\ all_dataframes # <<>>
    /\ \A k \in 1..Len(all_dataframes) : all_dataframes[k].ncols = 2
    /\ plotted' = Zip(all_dataframes, file_labels)
    /\ pc' = "export"
    /\ UNCHANGED <<symbol_map_text, symbol_map, sidebar_error, encoding,
                   uploaded_files, idx, all_dataframes, file_labels,
                   overall_min_range, overall_max_range, errors, warnings,
                   excel_calls, workbook, download, codecVars>>

\* line 192: df["Percentage"] of a table without that column raises KeyError,
\* which nothing catches
PlotKeyError ==
    /\ pc = "plot"
    /\ all_dataframes # <<>>
    /\ \E k \in 1..Len(all_dataframes) : all_dataframes[k].ncols # 2
    /\ pc' = "crashed"
    /\ UNCHANGED <<symbol_map_text, symbol_map, sidebar_error, encoding,
                   uploaded_files, idx, all_dataframes, file_labels,
                   overall_min_range, overall_max_range, errors, warnings, plotted,
                   excel_calls, workbook, download, codecVars>>

\* lines 205-206
WarnNoData ==
    /\ pc = "plot"
    /\ all_dataframes = <<>>
    /\ warnings' = Append(warnings, "No valid data to plot.")
    /\ pc' = "export"
    /\ UNCHANGED <<symbol_map_text, symbol_map, sidebar_error, encoding,
                   uploaded_files, idx, all_dataframes, file_labels,
                   overall_min_range, overall_max_range, errors, plotted,
                   excel_calls, workbook, download, codecVars>>

\* lines 68-75: one sheet per zipped pair
save_to_excel(dataframes, file_names) ==
    LET z == Zip(dataframes, file_names)
    IN  [k \in 1..Len(z) |-> [sheet_name |-> z[k].label, df |-> z[k].df]]

\* lines 209-217: workbook and download button
Export ==
    /\ pc = "export"
    /\ all_dataframes # <<>>
    /\ excel_calls' = excel_calls + 1
    /\ workbook' = save_to_excel(all_dataframes, file_labels)
    /\ download' = TRUE
    /\ pc' = "idle"
    /\ UNCHANGED <<symbol_map_text, symbol_map, sidebar_error, encoding,
                   uploaded_files, idx, all_dataframes, file_labels,
                   overall_min_range, overall_max_range, errors, warnings, plotted,
                   codecVars>>

\* lines 209-217 with no table: the writer is closed without a sheet.  openpyxl
\* refuses to save such a workbook (IndexError, which nothing catches); a
\* writer that accepts it hands an empty workbook to the download button.
ExportNothing ==
    /\ pc = "export"
    /\ all_dataframes = <<>>
    /\ excel_calls' = excel_calls + 1
    /\ \/ /\ pc' = "crashed"
          /\ UNCHANGED <<workbook, download>>
       \/ /\ workbook' = <<>>
          /\ download' = TRUE
          /\ pc' = "idle"
    /\ UNCHANGED <<symbol_map_text, symbol_map, sidebar_error, encoding,
                   uploaded_files, idx, all_dataframes, file_labels,
                   overall_min_range, overall_max_range, errors, warnings, plotted,
                   codecVars>>

Next ==
    \/ BuildSymbolMap
    \/ ClickProcess
    \/ ClickNoFiles
    \/ ProcessFile
    \/ SetDefaultRanges
    \/ Plot
    \/ PlotKeyError
    \/ WarnNoData
    \/ Export
    \/ ExportNothing

Spec == Init /\ [][Next]_vars

(***************************************************************************)
(* Claims about the "Process Files" action, checked under Spec.            *)
(***************************************************************************)
\* the per-file loop has run to its end
LoopDone == pc \in {"ranges", "plot", "export", "idle", "crashed"} /\ uploaded_files # <<>>

\* the default ranges have been set
RangesSet == pc \in {"plot", "export", "idle", "crashed"} /\ uploaded_files # <<>>

ErrorsOf(i) == {k \in 1..Len(errors) : errors[k].file = i}

TablesOf(i) == {k \in 1..Len(all_dataframes) : all_dataframes[k].src = i}

IsOdt(file) == file.ext = ".odt"

\* the text of a file as the parser sees it (Latin-1 for bytes the selected
\* encoding cannot decode, which never reach the parser)
TextOf(file) ==
    IF IsOdt(file) THEN file.lines
    ELSE IF encoding = "utf-8" /\ \A l \in 1..Len(file.lines) : Utf8Valid(file.lines[l])
    THEN [l \in 1..Len(file.lines) |-> decode_utf8(file.lines[l])]
    ELSE [l \in 1..Len(file.lines) |-> decode_latin1(file.lines[l])]

\* C1: every plotted series and every sheet carries the label of the file
\* its table was parsed from, and tables appear in upload order.
C1_LabelsFollowTables ==
    /\ \A k \in 1..Len(plotted) :
          plotted[k].label = uploaded_files[plotted[k].df.src].stem
    /\ \A k \in 1..Len(workbook) :
          workbook[k].sheet_name = uploaded_files[workbook[k].df.src].stem
    /\ \A j, k \in 1..Len(workbook) :
          j < k => workbook[j].df.src < workbook[k].df.src

\* C2: the processing action never ends in an unhandled error, and when it is
\* back to idle every file has either contributed or been reported.
C2_ActionCompletes ==
    /\ pc # "crashed"
    /\ (pc = "idle" /\ uploaded_files # <<>>) => Len(file_labels) = Len(uploaded_files)

\* bytes that the selected named encoding cannot decode (Latin-1 decodes every
\* byte)
InvalidFor(file, enc) ==
    /\ ~IsOdt(file)
    /\ enc = "utf-8"
    /\ \E l \in 1..Len(file.lines) : ~Utf8Valid(file.lines[l])

\* the tables a list of files yields, file by file
RECURSIVE Contributions(_, _, _)
Contributions(files, m, enc) ==
    IF files = <<>> THEN <<>>
    ELSE LET out == ParseFile(Head(files), m, enc)
         IN  (IF ~out.raised /\ ~IsEmpty(out.df) THEN <<out.df>> ELSE <<>>)
                \o Contributions(Tail(files), m, enc)

\* C3: a plain-text file whose bytes are invalid for the selected named
\* encoding is reported by exactly one error and contributes no table; the
\* tables of the action are those the remaining files yield without it.
C3_EncodingErrorIsolated ==
    LoopDone =>
        LET Decodable(f) == ~InvalidFor(f, encoding)
        IN  /\ \A i \in 1..Len(uploaded_files) :
                  InvalidFor(uploaded_files[i], encoding) =>
                      /\ Cardinality(ErrorsOf(i)) = 1
                      /\ TablesOf(i) = {}
            /\ [k \in 1..Len(all_dataframes) |->
                    [ncols |-> all_dataframes[k].ncols, rows |-> all_dataframes[k].rows]]
                 = Contributions(SelectSeq(uploaded_files, Decodable), symbol_map, encoding)

\* C3 witness: an undecodable file was uploaded before a file that
\* contributed a table of rows.
C3_Witness ==
    /\ LoopDone
    /\ \E i, j \in 1..Len(uploaded_files) :
          /\ i < j
          /\ InvalidFor(uploaded_files[i], encoding)
          /\ Cardinality(ErrorsOf(i)) = 1
          /\ \E k \in TablesOf(j) : all_dataframes[k].rows # <<>>

\* C4: a row with a token count other than 1 or 2 never makes its file fail:
\* the file is not reported, and its rows of one or two numeric tokens are in
\* its table.
C4_MalformedRowSkipped ==
    LoopDone =>
        \A i \in 1..Len(uploaded_files) :
            LET file == uploaded_files[i]
                rows == SplitRows(TextOf(file))
                good == {r \in 1..Len(rows) :
                            /\ Len(rows[r]) \in {1, 2}
                            /\ \A c \in 1..Len(rows[r]) :
                                  IsNumeric(convert_digits_to_symbols(rows[r][c], symbol_map))}
            IN  (~InvalidFor(file, encoding) /\ \E r \in 1..Len(rows) : Len(rows[r]) \notin {1, 2})
                => /\ ErrorsOf(i) = {}
                   /\ good # {} =>
                         \E k \in TablesOf(i) : Len(all_dataframes[k].rows) = Cardinality(good)

\* C5: every field of every row that reaches the dataset, the plot or the
\* workbook is a number.
C5_OnlyNumericRows ==
    /\ \A k \in 1..Len(all_dataframes) :
          \A r \in 1..Len(all_dataframes[k].rows) :
              \A c \in 1..Len(all_dataframes[k].rows[r]) :
                  IsNumber(all_dataframes[k].rows[r][c])
    /\ \A k \in 1..Len(workbook) :
          \A r \in 1..Len(workbook[k].df.rows) :
              \A c \in 1..Len(workbook[k].df.rows[r]) :
                  IsNumber(workbook[k].df.rows[r][c])

\* C6: a supplied map that is not injective is replaced by the default map
\* and reported; it is never the map used for decoding.
C6_NonInjectiveFallsBack ==
    (pc # "build" /\ symbol_map_text.kind = "dict" /\ ~Injective(symbol_map_text.items))
    => /\ symbol_map = default_symbol_map
       /\ sidebar_error

\* C8: when no file produced data the action warns and produces neither a
\* plot nor a workbook: save_to_excel is not called, no download is offered.
C8_NothingToExport ==
    (pc \in {"idle", "crashed"} /\ all_dataframes = <<>>)
    => /\ warnings # <<>>
       /\ plotted = <<>>
       /\ excel_calls = 0
       /\ ~download

\* the numbers of column c of a table (text that reads as a number counts)
NumbersOf(df, c) ==
    {IF IsNumber(df.rows[r][c]) THEN df.rows[r][c].v ELSE NumVal(df.rows[r][c].s) :
        r \in {q \in 1..Len(df.rows) :
                  IsNumber(df.rows[q][c])
                  \/ (df.rows[q][c].t = "str" /\ IsNumeric(df.rows[q][c].s))}}

\* C10: min_x is the least first-column value of all tables, max_y the
\* greatest second-column value (first-column value for a table without a
\* second column); a bound without any value takes its default.
C10_DerivedBounds ==
    RangesSet =>
        LET xs == UNION {NumbersOf(all_dataframes[k], 1) : k \in 1..Len(all_dataframes)}
            ys == UNION {NumbersOf(all_dataframes[k], all_dataframes[k].ncols) :
                            k \in 1..Len(all_dataframes)}
        IN  /\ overall_min_range = (IF xs = {} THEN DefaultMinRange ELSE SetMin(xs))
            /\ overall_max_range = (IF ys = {} THEN DefaultMaxRange ELSE SetMax(ys))

(***************************************************************************)
(* Codec harness: convert_digits_to_symbols applied to bounded inputs.     *)
(***************************************************************************)
CodecKeys == {"1", "2", "."}
CodecGlyphs == {"1", "2", "x"}
CodecChars == {"1", "2", ".", "x"}
CodecMaps ==
    {m \in SeqsUpTo(CodecKeys \X CodecGlyphs, MaxMapLen) :
        \A i, j \in 1..Len(m) : m[i][1] = m[j][1] => i = j}

CodecInputs ==
    (CodecMaps \X SeqsUpTo(CodecChars, MaxLen))
        \cup {<<default_symbol_map, ExampleText>>}

AppOff ==
    /\ symbol_map_text = [kind |-> "dict", items |-> default_symbol_map]
    /\ symbol_map = default_symbol_map
    /\ sidebar_error = FALSE
    /\ encoding = "latin1"
    /\ uploaded_files = <<>>
    /\ pc = "off"
    /\ idx = 0
    /\ all_dataframes = <<>>
    /\ file_labels = <<>>
    /\ overall_min_range = 0
    /\ overall_max_range = 0
    /\ errors = <<>>
    /\ warnings = <<>>
    /\ plotted = <<>>
    /\ excel_calls = 0
    /\ workbook = <<>>
    /\ download = FALSE

CodecInit ==
    /\ AppOff
    /\ \E inp \in CodecInputs : cmap = inp[1] /\ ctext = inp[2]
    /\ creplaced = <<>>
    /\ cout = <<>>
    /\ cpc = "called"

Substitute ==
    /\ cpc = "called"
    /\ creplaced' = ForwardPass(ctext, cmap)
    /\ cpc' = "replaced"
    /\ UNCHANGED <<ctext, cmap, cout, appVars>>

Reverse ==
    /\ cpc = "replaced"
    /\ cout' = ReversePass(creplaced, cmap)
    /\ cpc' = "returned"
    /\ UNCHANGED <<ctext, cmap, creplaced, appVars>>

CodecNext == Substitute \/ Reverse

SpecCodec == CodecInit /\ [][CodecNext]_vars

(***************************************************************************)
(* Claims about the codec, checked under SpecCodec.                        *)
(***************************************************************************)
DigitOnly(text) == \A i \in 1..Len(text) : text[i] \in DigitChars

ValidMap(m) == Injective(m) /\ Keys(m) \subseteq (DigitChars \cup {"."})

\* the keys whose glyph is g
SourcesOf(m, g) == {m[i][1] : i \in {j \in 1..Len(m) : m[j][2] = g}}

\* the key of the last item whose glyph is g
LastSourceOf(m, g) ==
    CHOOSE k \in Keys(m) :
        \E i \in 1..Len(m) :
            /\ m[i] = <<k, g>>
            /\ \A j \in (i + 1)..Len(m) : m[j][2] # g

\* C7 as stated: for every injective map with keys among 0-9 and "." and
\* every digit-only string s, convert_digits_to_symbols(s, M) = s.
C7_RoundTripAsStated ==
    (cpc = "returned" /\ ValidMap(cmap) /\ DigitOnly(ctext)) => cout = ctext

\* C7 amended: the round trip returns s provided no character of s is at once
\* outside the keys of M and a glyph of M.
C7_RoundTrip ==
    ( /\ cpc = "returned"
      /\ ValidMap(cmap)
      /\ DigitOnly(ctext)
      /\ \A i \in 1..Len(ctext) :
            ctext[i] \notin Keys(cmap) => ctext[i] \notin Glyphs(cmap) )
    => cout = ctext

\* C7 witness: a digit string really substituted on the way (a key whose
\* glyph differs from it) comes back unchanged.
C7_Witness ==
    /\ cpc = "returned"
    /\ ValidMap(cmap)
    /\ DigitOnly(ctext)
    /\ ctext # <<>>
    /\ \A i \in 1..Len(ctext) :
            ctext[i] \notin Keys(cmap) => ctext[i] \notin Glyphs(cmap)
    /\ creplaced # ctext
    /\ cout = ctext

\* C9 as stated: every character that is a glyph of the map is replaced by a
\* source character of that glyph, every other character is unchanged, and
\* the documented example decodes to "190 56.3".
C9_DecodeAsStated ==
    cpc = "returned" =>
        /\ Len(cout) = Len(ctext)
        /\ \A i \in 1..Len(ctext) :
              IF ctext[i] \in Glyphs(cmap)
              THEN cout[i] \in SourcesOf(cmap, ctext[i])
              ELSE cout[i] = ctext[i]
        /\ (cmap = default_symbol_map /\ ctext = ExampleText) =>
              cout = <<"1", "9", "0", " ", "5", "6", ".", "3">>

\* C9 amended: a character that is a key of the map comes out as the last
\* key carrying the same glyph (itself when the map is injective), also when
\* it is the glyph of another key; a character that is a glyph and no key
\* comes out as the last key carrying it; any other character is unchanged;
\* the documented example decodes to "090 56.3".
C9_Decode ==
    cpc = "returned" =>
        /\ Len(cout) = Len(ctext)
        /\ \A i \in 1..Len(ctext) :
              LET c == ctext[i]
              IN  /\ (c \in Keys(cmap) /\ Injective(cmap)) => cout[i] = c
                  /\ c \in Keys(cmap) =>
                        cout[i] = LastSourceOf(cmap, DictGet(cmap, c))
                  /\ (c \notin Keys(cmap) /\ c \in Glyphs(cmap)) =>
                        cout[i] = LastSourceOf(cmap, c)
                  /\ (c \notin Keys(cmap) /\ c \notin Glyphs(cmap)) =>
                        cout[i] = c
        /\ (cmap = default_symbol_map /\ ctext = ExampleText) =>
              cout = <<"0", "9", "0", " ", "5", "6", ".", "3">>

\* C9 witness: the documented example has been decoded, glyphs replaced.
C9_Witness ==
    /\ cpc = "returned"
    /\ cmap = default_symbol_map
    /\ ctext = ExampleText
    /\ cout = <<"0", "9", "0", " ", "5", "6", ".", "3">>

====
